---- MODULE Spec2Model ----
(***************************************************************************)
(* A model of easytorch/core/optimizer_builder.py: the two factory         *)
(* functions build_optim and build_lr_scheduler, the registries they look  *)
(* a TYPE name up in, and the optimizer's param groups.                    *)
(*                                                                         *)
(* Python values are modelled as follows.                                  *)
(*   dict        a sequence of <<key, value>> pairs with distinct keys, in *)
(*               insertion order (so two equal dicts may differ as         *)
(*               sequences, as they may differ in iteration order)         *)
(*   frozenset   a set of <<key, value>> pairs                             *)
(*   config      a function from a subset of {"TYPE", "PARAM"}             *)
(*   TYPE        [kind |-> "type", v |-> the class] or                     *)
(*               [kind |-> "str",  v |-> the name]                         *)
(*   parameter   a record with the field id, and the field _optim when the *)
(*               attribute is set                                          *)
(*   exception   its class name in a string; "" is normal completion       *)
(***************************************************************************)
EXTENDS Integers, Sequences, FiniteSets, TLC

\* ------------------------------------------------------------- bounds
\* The largest number of parameters of a model.
MaxParams == 4
\* The largest number of optimizer objects constructed in one behaviour.
MaxOptimizers == 2

VARIABLES
    optim_cfg,          \* the caller's optimizer config
    lr_scheduler_cfg,   \* the caller's scheduler config
    model,              \* list(model.parameters())
    optimizer,          \* what the last successful build_optim returned, or None
    scheduler,          \* what the last successful build_lr_scheduler returned, or None
    called,             \* the builder called last: "", "build_optim", "build_lr_scheduler"
    raised,             \* the exception the last call propagated, "" if it returned
    returned,           \* what the last call returned, None if it raised
    constructed,        \* the types of the objects the last call constructed
    stdout,             \* the lines the last call printed
    n_optimizers        \* optimizer objects constructed so far (object identity)

vars == <<optim_cfg, lr_scheduler_cfg, model, optimizer, scheduler, called,
          raised, returned, constructed, stdout, n_optimizers>>

\* ------------------------------------------------------------- dicts
None == [type |-> "NoneType"]

Keys(d) == {d[i][1] : i \in DOMAIN d}

Items(d) == {d[i] : i \in DOMAIN d}

GetItem(d, k) == d[CHOOSE i \in DOMAIN d : d[i][1] = k][2]

\* d.get(k, None): <<v>> for a value, <<>> for None
Get(d, k) == IF k \in Keys(d) THEN <<GetItem(d, k)>> ELSE <<>>

\* d.setdefault(k, v)
SetDefault(d, k, v) == IF k \in Keys(d) THEN d ELSE Append(d, <<k, v>>)

\* (mutant) an assignment that leaves an existing entry as it is
SetItem_keep(d, k, v) == SetDefault(d, k, v)

\* d[k] = v: an existing key keeps its position
SetItem(d, k, v) ==
    IF k \in Keys(d)
    THEN [i \in DOMAIN d |-> IF d[i][1] = k THEN <<k, v>> ELSE d[i]]
    ELSE Append(d, <<k, v>>)

\* (mutant) a subscript that falls back to a default, as cfg.get(key, default)
getitem_default(cfg, key) ==
    IF key \in DOMAIN cfg THEN [raised |-> "", val |-> cfg[key]]
    ELSE [raised |-> "",
          val |-> IF key = "PARAM" THEN <<>> ELSE [kind |-> "str", v |-> "SGD"]]

\* cfg[key]: the value, or KeyError
getitem(cfg, key) ==
    IF key \in DOMAIN cfg THEN [raised |-> "", val |-> cfg[key]]
    ELSE [raised |-> "KeyError", val |-> None]

\* A reference to a dict: obj names the object referred to, val is its content.
\* (mutant) no copy: the same object
copy_alias(ref) == ref

\* d.copy(): a new object with the same content
copy(ref) == [obj |-> "copy", val |-> ref.val]

\* (mutant) equality that also compares the order of the keys
DictEq_ordered(d1, d2) == d1 = d2

\* d1 == d2 on dicts: the same keys with equal values, in any order
DictEq(d1, d2) ==
    /\ Len(d1) = Len(d2)
    /\ \A k \in Keys(d1) : k \in Keys(d2) /\ GetItem(d1, k) = GetItem(d2, k)

\* dict(s) of a frozenset of pairs: the pairs in the set's iteration order,
\* which is one fixed order of its elements
RECURSIVE dict_of(_)
dict_of(s) ==
    IF s = {} THEN <<>>
    ELSE LET x == CHOOSE y \in s : TRUE
         IN  <<x>> \o dict_of(s \ {x})

\* (mutant) no deduplication
fromkeys_all(xs) == xs

\* dict.fromkeys(xs) as a list: the first occurrence of each element, in order
RECURSIVE fromkeys(_)
fromkeys(xs) ==
    IF xs = <<>> THEN <<>>
    ELSE LET init == fromkeys(SubSeq(xs, 1, Len(xs) - 1))
             x    == xs[Len(xs)]
         IN  IF \E i \in DOMAIN init : init[i] = x THEN init ELSE Append(init, x)

\* ------------------------------------------------------------- sorted
\* frozenset.__lt__: proper subset
ISLT(a, b) == a \subseteq b /\ a # b

\* listobject.c count_run: the length of the run a starts with, and whether it
\* is (strictly) descending
RECURSIVE run_end(_, _, _)
run_end(a, n, descending) ==
    IF n >= Len(a) THEN n
    ELSE IF ISLT(a[n + 1], a[n]) = descending THEN run_end(a, n + 1, descending)
    ELSE n

count_run(a) ==
    IF Len(a) = 1 THEN [n |-> 1, descending |-> FALSE]
    ELSE LET descending == ISLT(a[2], a[1])
         IN  [n |-> run_end(a, 2, descending), descending |-> descending]

reverse_slice(a, n) == [i \in DOMAIN a |-> IF i <= n THEN a[n + 1 - i] ELSE a[i]]

\* listobject.c binarysort: a[1..start-1] is sorted; insert a[start..] one by one
RECURSIVE bisect(_, _, _, _)
bisect(a, pivot, l, r) ==
    IF l >= r THEN l
    ELSE LET p == l + ((r - l) \div 2)
         IN  IF ISLT(pivot, a[p]) THEN bisect(a, pivot, l, p)
             ELSE bisect(a, pivot, p + 1, r)

RECURSIVE binarysort(_, _)
binarysort(a, start) ==
    IF start > Len(a) THEN a
    ELSE LET pivot == a[start]
             l     == bisect(a, pivot, 1, start)
             b     == [i \in DOMAIN a |->
                         IF i < l THEN a[i]
                         ELSE IF i = l THEN pivot
                         ELSE IF i <= start THEN a[i - 1]
                         ELSE a[i]]
         IN  binarysort(b, start + 1)

\* sorted(xs) for fewer than 64 elements: one run, then binary insertion
sorted(xs) ==
    IF Len(xs) < 2 THEN xs
    ELSE LET run == count_run(xs)
             a   == IF run.descending THEN reverse_slice(xs, run.n) ELSE xs
         IN  binarysort(a, run.n + 1)

\* ------------------------------------------------------------- registries
\* The namespaces a TYPE name is looked up in: attribute name -> type.
\* torch.optim
optim == [SGD |-> "torch.optim.SGD", Adam |-> "torch.optim.Adam"]
\* easytorch.easyoptim
easyoptim == [SGD |-> "easyoptim.SGD", Lamb |-> "easyoptim.Lamb"]
\* torch.optim.lr_scheduler
lr_scheduler == [StepLR |-> "lr_scheduler.StepLR",
                 MultiStepLR |-> "lr_scheduler.MultiStepLR"]
\* easytorch.easyoptim.easy_lr_scheduler
easy_lr_scheduler == [StepLR |-> "easy_lr_scheduler.StepLR",
                      CosineWarmup |-> "easy_lr_scheduler.CosineWarmup"]

hasattr(module, name) == name \in DOMAIN module

\* (mutant) getattr with a default instead of AttributeError
getattr_default(module, name) ==
    IF hasattr(module, name) THEN [raised |-> "", type |-> module[name]]
    ELSE [raised |-> "", type |-> "object"]

\* getattr(module, name) with no default: the attribute, or AttributeError
getattr(module, name) ==
    IF hasattr(module, name) THEN [raised |-> "", type |-> module[name]]
    ELSE [raised |-> "AttributeError", type |-> ""]

\* ------------------------------------------------------------- parameters
HasOptim(p) == "_optim" \in DOMAIN p

\* (mutant) no filter on the attribute
general_params_all(all_parameters) == all_parameters

\* [p for p in all_parameters if not hasattr(p, "_optim")]
general_params(all_parameters) ==
    SelectSeq(all_parameters, LAMBDA p : ~HasOptim(p))

\* [getattr(p, "_optim") for p in all_parameters if hasattr(p, "_optim")]
special_dicts(all_parameters) ==
    LET with == SelectSeq(all_parameters, HasOptim)
    IN  [i \in DOMAIN with |-> with[i]._optim]

\* [dict(s) for s in sorted(list(dict.fromkeys(frozenset(hp.items()) for hp in hps)))]
unique_hps(hps) ==
    LET frozen == [i \in DOMAIN hps |-> Items(hps[i])]
        order  == sorted(fromkeys(frozen))
    IN  [i \in DOMAIN order |-> dict_of(order[i])]

\* [p for p in all_parameters if getattr(p, "_optim", None) == hp]
params_of(all_parameters, hp) ==
    SelectSeq(all_parameters, LAMBDA p : HasOptim(p) /\ DictEq(p._optim, hp))

\* ------------------------------------------------------------- optimizer
\* {"params": params, **hp}
param_group(params, hp) == [params |-> params, options |-> hp]

\* Optimizer.add_param_group: the group as given, each default hyperparameter
\* the group does not name filled in, appended to param_groups
\* (mutant) the defaults written over the group's own values
RECURSIVE fill_defaults_over(_, _)
fill_defaults_over(options, defaults) ==
    IF defaults = <<>> THEN options
    ELSE fill_defaults_over(SetItem(options, Head(defaults)[1], Head(defaults)[2]),
                            Tail(defaults))

RECURSIVE fill_defaults(_, _)
fill_defaults(options, defaults) ==
    IF defaults = <<>> THEN options
    ELSE fill_defaults(SetDefault(options, Head(defaults)[1], Head(defaults)[2]),
                       Tail(defaults))

add_param_group(opt, group) ==
    [opt EXCEPT !.param_groups =
        Append(@, [group EXCEPT !.options = fill_defaults(@, opt.defaults)])]

\* optim_type(params, **optim_param): a new optimizer whose group 0 holds params
\* with the keyword arguments as its hyperparameters; torch's Optimizer.__init__
\* raises ValueError for an empty parameter list
new_optimizer(optim_type, id, params, optim_param) ==
    IF params = <<>> THEN [raised |-> "ValueError", ret |-> None]
    ELSE [raised |-> "",
          ret    |-> add_param_group([id |-> id, type |-> optim_type,
                                      defaults |-> optim_param,
                                      param_groups |-> <<>>],
                                     param_group(params, <<>>))]

\* for hp in hps: optimizer.add_param_group({"params": params, **hp})
RECURSIVE add_special_groups(_, _, _)
add_special_groups(opt, all_parameters, hps) ==
    IF hps = <<>> THEN opt
    ELSE add_special_groups(
             add_param_group(opt, param_group(params_of(all_parameters, Head(hps)),
                                              Head(hps))),
             all_parameters, Tail(hps))

\* sorted(set(keys)) on strings: the keys in use, in lexicographic order
KeyOrder == <<"gamma", "lr", "optimizer", "weight_decay">>

sorted_keys(ks) == SelectSeq(KeyOrder, LAMBDA k : k \in ks)

\* the summary: one line per param group
summary(opt, hps) ==
    LET keys == sorted_keys(UNION {Keys(hps[i]) : i \in DOMAIN hps})
    IN  [i \in DOMAIN opt.param_groups |->
            [group   |-> i - 1,
             tensors |-> Len(opt.param_groups[i].params),
             hps     |-> [j \in DOMAIN keys |->
                            <<keys[j], Get(opt.param_groups[i].options, keys[j])>>]]]

\* ------------------------------------------------------------- build_optim
\* What a call leaves behind when it propagates exception e.
Raise(e, cfg) ==
    [raised |-> e, ret |-> None, constructed |-> <<>>, stdout |-> <<>>, cfg |-> cfg]

\* isinstance(x, type)
is_type(x) == x.kind = "type"

\* (mutant) the custom registry looked up first
optim_type_custom_first(TYPE) ==
    IF is_type(TYPE) THEN [raised |-> "", type |-> TYPE.v]
    ELSE IF hasattr(easyoptim, TYPE.v) THEN getattr(easyoptim, TYPE.v)
    ELSE getattr(optim, TYPE.v)

\* lines 52-58: the type optim_cfg['TYPE'] resolves to
optim_type_of(TYPE) ==
    IF is_type(TYPE) THEN [raised |-> "", type |-> TYPE.v]
    ELSE IF hasattr(optim, TYPE.v) THEN getattr(optim, TYPE.v)
    ELSE getattr(easyoptim, TYPE.v)

\* build_optim(optim_cfg, model), the new optimizer being object number id
build_optim_call(cfg, all_parameters, id) ==
    LET TYPE  == getitem(cfg, "TYPE")
        t     == optim_type_of(TYPE.val)
        PARAM == getitem(cfg, "PARAM")
    IN  IF TYPE.raised # "" THEN Raise(TYPE.raised, cfg)
        ELSE IF t.raised # "" THEN Raise(t.raised, cfg)
        ELSE IF PARAM.raised # "" THEN Raise(PARAM.raised, cfg)
        ELSE LET optim_param == copy([obj |-> "PARAM", val |-> PARAM.val])
                 params      == general_params(all_parameters)
                 opt0        == new_optimizer(t.type, id, params, optim_param.val)
                 hps         == unique_hps(special_dicts(all_parameters))
                 opt         == add_special_groups(opt0.ret, all_parameters, hps)
             IN  IF opt0.raised # "" THEN Raise(opt0.raised, cfg)
                 ELSE [raised      |-> "",
                       ret         |-> opt,
                       constructed |-> <<t.type>>,
                       stdout      |-> summary(opt, hps),
                       cfg         |-> cfg]

\* ------------------------------------------------------------- build_lr_scheduler
\* lines 132-138: the type TYPE resolves to
scheduler_type_of(TYPE) ==
    IF is_type(TYPE) THEN [raised |-> "", type |-> TYPE.v]
    ELSE IF hasattr(lr_scheduler, TYPE.v) THEN getattr(lr_scheduler, TYPE.v)
    ELSE getattr(easy_lr_scheduler, TYPE.v)

\* scheduler_type(**scheduler_param)
new_scheduler(scheduler_type, scheduler_param) ==
    [type |-> scheduler_type, kwargs |-> scheduler_param]

\* a write through a reference reaches the config when the reference is to the
\* config's own PARAM dict
cfg_after(cfg, ref) ==
    IF ref.obj = "PARAM" THEN [cfg EXCEPT !["PARAM"] = ref.val] ELSE cfg

\* build_lr_scheduler(lr_scheduler_cfg, optimizer)
build_lr_scheduler_call(cfg, opt) ==
    LET TYPE  == getitem(cfg, "TYPE")
        \* line 131: lr_scheduler_cfg['TYPE'] = lr_scheduler_cfg['TYPE']
        cfg1  == [k \in DOMAIN cfg \cup {"TYPE"} |->
                    IF k = "TYPE" THEN TYPE.val ELSE cfg[k]]
        t     == scheduler_type_of(getitem(cfg1, "TYPE").val)
        PARAM == getitem(cfg1, "PARAM")
    IN  IF TYPE.raised # "" THEN Raise(TYPE.raised, cfg)
        ELSE IF t.raised # "" THEN Raise(t.raised, cfg1)
        ELSE IF PARAM.raised # "" THEN Raise(PARAM.raised, cfg1)
        ELSE LET scheduler_param == copy([obj |-> "PARAM", val |-> PARAM.val])
                 injected == [scheduler_param EXCEPT
                                !.val = SetItem(@, "optimizer", opt.id)]
             IN  [raised      |-> "",
                  ret         |-> new_scheduler(t.type, injected.val),
                  constructed |-> <<t.type>>,
                  stdout      |-> <<>>,
                  cfg         |-> cfg_after(cfg1, injected)]

\* ------------------------------------------------------------- inputs
\* The _optim dicts a parameter may carry: the empty dict, two that differ in
\* a value, and one set of pairs written in both key orders.
OverrideDicts ==
    << <<>>,
       << <<"lr", 1>> >>,
       << <<"lr", 2>> >>,
       << <<"lr", 1>>, <<"weight_decay", 1>> >>,
       << <<"weight_decay", 1>>, <<"lr", 1>> >> >>

\* parameter number i, with override number c (0: no _optim attribute)
Parameter(i, c) ==
    IF c = 0 THEN [id |-> i] ELSE [id |-> i, _optim |-> OverrideDicts[c]]

Models ==
    UNION {{[i \in 1..k |-> Parameter(i, f[i])] : f \in [1..k -> 0..Len(OverrideDicts)]}
           : k \in 0..MaxParams}

\* a config from an optional TYPE and an optional PARAM (a set of at most one)
Config(type, param) ==
    [k \in {"TYPE" : x \in type} \cup {"PARAM" : x \in param} |->
        IF k = "TYPE" THEN CHOOSE x \in type : TRUE ELSE CHOOSE x \in param : TRUE]

Optional(S) == {{}} \cup {{x} : x \in S}

Name(n) == [kind |-> "str", v |-> n]
Class(c) == [kind |-> "type", v |-> c]

OptimTypes == {Class("user.MyOptim"), Name("Adam"), Name("SGD"), Name("Lamb"),
               Name("Nope")}
OptimParams == {<<>>, << <<"lr", 3>> >>, << <<"weight_decay", 2>>, <<"lr", 1>> >>}

SchedulerTypes == {Class("user.MyScheduler"), Name("MultiStepLR"), Name("StepLR"),
                   Name("CosineWarmup"), Name("Nope")}
SchedulerParams == {<< <<"gamma", 1>> >>, << <<"optimizer", 0>>, <<"gamma", 1>> >>}

\* ------------------------------------------------------------- state machine
InitResults ==
    /\ optimizer = None
    /\ scheduler = None
    /\ called = ""
    /\ raised = ""
    /\ returned = None
    /\ constructed = <<>>
    /\ stdout = <<>>
    /\ n_optimizers = 0

\* Models of every shape, configs that resolve.
Init ==
    /\ model \in Models
    /\ optim_cfg \in {Config({Name("Adam")}, {p}) : p \in OptimParams}
    /\ lr_scheduler_cfg = Config({Name("StepLR")}, {<< <<"gamma", 1>> >>})
    /\ InitResults

\* Configs of every shape, models of at most one parameter.
InitConfig ==
    /\ model \in {m \in Models : Len(m) <= 1}
    /\ optim_cfg \in {Config(t, p) : t \in Optional(OptimTypes),
                                     p \in Optional(OptimParams)}
    /\ lr_scheduler_cfg \in {Config(t, p) : t \in Optional(SchedulerTypes),
                                            p \in Optional(SchedulerParams)}
    /\ InitResults

\* optimizer = build_optim(optim_cfg, model)
build_optim ==
    /\ n_optimizers < MaxOptimizers
    /\ LET r == build_optim_call(optim_cfg, model, n_optimizers + 1)
       IN  /\ called' = "build_optim"
           /\ raised' = r.raised
           /\ returned' = r.ret
           /\ constructed' = r.constructed
           /\ stdout' = r.stdout
           /\ optim_cfg' = r.cfg
           /\ optimizer' = IF r.raised = "" THEN r.ret ELSE optimizer
           /\ n_optimizers' = n_optimizers + Len(r.constructed)
    /\ UNCHANGED <<lr_scheduler_cfg, model, scheduler>>

\* scheduler = build_lr_scheduler(lr_scheduler_cfg, optimizer)
build_lr_scheduler ==
    /\ optimizer # None
    /\ LET r == build_lr_scheduler_call(lr_scheduler_cfg, optimizer)
       IN  /\ called' = "build_lr_scheduler"
           /\ raised' = r.raised
           /\ returned' = r.ret
           /\ constructed' = r.constructed
           /\ stdout' = r.stdout
           /\ lr_scheduler_cfg' = r.cfg
           /\ scheduler' = IF r.raised = "" THEN r.ret ELSE scheduler
    /\ UNCHANGED <<optim_cfg, model, optimizer, n_optimizers>>

Next == build_optim \/ build_lr_scheduler

Spec == Init /\ [][Next]_vars

SpecConfig == InitConfig /\ [][Next]_vars

\* ------------------------------------------------------------- properties
\* The ids of the parameters of param group g, and of the parameters of a
\* model that satisfy a condition.
GroupIds(g) == {g.params[i].id : i \in DOMAIN g.params}

Groups == optimizer.param_groups

\* the override sets found on the model's parameters
OverrideSets(m) == {Items(m[i]._optim) : i \in {j \in DOMAIN m : HasOptim(m[j])}}

\* the parameters of the model carrying exactly the override set s
Carrying(m, s) == {m[i].id : i \in {j \in DOMAIN m : HasOptim(m[j]) /\ Items(m[j]._optim) = s}}

\* the param groups parameter number id is in
GroupsOf(id) == {j \in DOMAIN Groups : id \in GroupIds(Groups[j])}

\* the override set the parameters of an additional group carry
GroupOverride(g) == Items(g.params[1]._optim)

\* C1: after build_optim returns, param group 0 holds exactly the parameters
\* with no _optim attribute, each once, so its parameter count is the number
\* of parameters lacking the attribute.
C1_DefaultGroup ==
    optimizer # None =>
        LET plain == {model[i].id : i \in {j \in DOMAIN model : ~HasOptim(model[j])}}
        IN  /\ GroupIds(Groups[1]) = plain
            /\ Len(Groups[1].params) = Cardinality(plain)

C1_Witness ==
    /\ optimizer # None
    /\ Len(model) = 3
    /\ ~HasOptim(model[1]) /\ HasOptim(model[2]) /\ ~HasOptim(model[3])
    /\ Len(Groups[1].params) = 2

\* C2: after build_optim returns there is one additional param group per
\* distinct override set (the empty dict included): 1 + that many groups,
\* each additional group holding exactly the parameters carrying one override
\* set, no two groups the same set, and every parameter in exactly one group,
\* once.
C2_GroupsMatchOverrideSets ==
    optimizer # None =>
        LET D == OverrideSets(model)
        IN  /\ Len(Groups) = 1 + Cardinality(D)
            /\ \A s \in D :
                 Cardinality({j \in 2..Len(Groups) :
                                GroupIds(Groups[j]) = Carrying(model, s)}) = 1
            /\ \A j \in 2..Len(Groups) :
                 \E s \in D : GroupIds(Groups[j]) = Carrying(model, s)
            /\ \A i \in DOMAIN model : Cardinality(GroupsOf(model[i].id)) = 1
            /\ \A j \in DOMAIN Groups :
                 Len(Groups[j].params) = Cardinality(GroupIds(Groups[j]))

C2_Witness ==
    /\ optimizer # None
    /\ Len(model) = 3
    /\ ~HasOptim(model[1])
    /\ HasOptim(model[2]) /\ model[2]._optim = <<>>
    /\ HasOptim(model[3]) /\ model[3]._optim # <<>>
    /\ Len(Groups) = 3
    /\ \E j \in 2..3 : GroupIds(Groups[j]) = {2} /\ Groups[j].options = optimizer.defaults

\* C3: two parameters whose override dicts hold the same (key, value) pairs are
\* in the same param group, also when the dicts list their keys in a different
\* order; two whose dicts differ in a key or a value are in different groups.
C3_SamePairsSameGroup ==
    optimizer # None =>
        \A i, j \in {k \in DOMAIN model : HasOptim(model[k])} :
            /\ GroupsOf(model[i].id) # {}
            /\ Items(model[i]._optim) = Items(model[j]._optim)
                  => GroupsOf(model[i].id) = GroupsOf(model[j].id)
            /\ Items(model[i]._optim) # Items(model[j]._optim)
                  => GroupsOf(model[i].id) \cap GroupsOf(model[j].id) = {}

C3_Witness ==
    /\ optimizer # None
    /\ \E i, j, k \in DOMAIN model :
         /\ HasOptim(model[i]) /\ HasOptim(model[j]) /\ HasOptim(model[k])
         /\ model[i]._optim # model[j]._optim
         /\ Items(model[i]._optim) = Items(model[j]._optim)
         /\ Items(model[k]._optim) \subseteq Items(model[i]._optim)
         /\ Items(model[k]._optim) # Items(model[i]._optim)
         /\ GroupsOf(model[i].id) = GroupsOf(model[j].id)
         /\ GroupsOf(model[k].id) # GroupsOf(model[i].id)

\* The order in which a build over model m adds the additional groups: the
\* override set of each, in turn.
AddOrder(m) ==
    LET gs == build_optim_call(optim_cfg, m, 1).ret.param_groups
    IN  [j \in 1..(Len(gs) - 1) |-> GroupOverride(gs[j + 1])]

\* build_optim returns for model m
Builds(m) == build_optim_call(optim_cfg, m, 1).raised = ""

\* C4: the order in which build_optim adds the additional param groups is a
\* function of the set of distinct override sets alone: a build over any model
\* with the same distinct override sets adds them in the same order.
C4_OrderDeterministic ==
    optimizer # None =>
        \A m \in Models :
            Builds(m) /\ OverrideSets(m) = OverrideSets(model) =>
                AddOrder(m) = [j \in 1..(Len(Groups) - 1) |-> GroupOverride(Groups[j + 1])]

\* C9: in every additional param group each hyperparameter the group's
\* override names has the override's value, also when PARAM gives the same key
\* another value; group 0 holds the parameters without override with exactly
\* the hyperparameters of PARAM.
C9_OverrideWins ==
    optimizer # None =>
        /\ \A j \in 2..Len(Groups) :
             \A kv \in GroupOverride(Groups[j]) :
                Get(Groups[j].options, kv[1]) = <<kv[2]>>
        /\ Groups[1].params = SelectSeq(model, LAMBDA p : ~HasOptim(p))
        /\ Items(Groups[1].options) = Items(optim_cfg["PARAM"])

C9_Witness ==
    /\ optimizer # None
    /\ Len(Groups) >= 3
    /\ Get(optim_cfg["PARAM"], "lr") = <<3>>
    /\ \E j \in 2..Len(Groups) : Get(Groups[j].options, "lr") = <<2>>
    /\ \E j \in 2..Len(Groups) : Get(Groups[j].options, "lr") = <<3>>
    /\ Get(Groups[1].options, "lr") = <<3>>

\* ------------------------------------------------------------- properties of the configs
\* TYPE is a name found in neither of the two registries.
Unresolved(cfg, builtin, custom) ==
    /\ "TYPE" \in DOMAIN cfg
    /\ ~is_type(cfg["TYPE"])
    /\ cfg["TYPE"].v \notin DOMAIN builtin \cup DOMAIN custom

\* The type TYPE stands for: the class itself, else the built-in registry's
\* entry, else the custom registry's.
Resolved(TYPE, builtin, custom) ==
    IF TYPE.kind = "type" THEN TYPE.v
    ELSE IF TYPE.v \in DOMAIN builtin THEN builtin[TYPE.v]
    ELSE custom[TYPE.v]

\* C5: build_optim uses a TYPE that is a class as it is, looks a name up in the
\* built-in registry first and in the custom registry only when the built-in
\* one lacks it, and returns an optimizer of exactly that type built with the
\* keyword arguments of PARAM.
C5_OptimTypePriority ==
    (called = "build_optim" /\ raised = "") =>
        /\ returned.type = Resolved(optim_cfg["TYPE"], optim, easyoptim)
        /\ constructed = <<returned.type>>
        /\ Items(returned.defaults) = Items(optim_cfg["PARAM"])
        /\ returned = optimizer

C5_Witness ==
    /\ called = "build_optim" /\ raised = ""
    /\ optim_cfg["TYPE"] = Name("SGD")
    /\ returned.type = "torch.optim.SGD"
    /\ Get(returned.defaults, "lr") = <<3>>

\* C6: a TYPE name found in neither registry makes either builder fail with
\* AttributeError, with nothing constructed, no param group added (no
\* optimizer exists to add one to) and nothing printed.
C6_LookupErrorFirst ==
    /\ (called = "build_optim" /\ Unresolved(optim_cfg, optim, easyoptim)) =>
          /\ raised = "AttributeError"
          /\ returned = None /\ constructed = <<>> /\ stdout = <<>>
          /\ optimizer = None /\ n_optimizers = 0
    /\ (called = "build_lr_scheduler"
            /\ Unresolved(lr_scheduler_cfg, lr_scheduler, easy_lr_scheduler)) =>
          /\ raised = "AttributeError"
          /\ returned = None /\ constructed = <<>> /\ stdout = <<>>
          /\ scheduler = None

C6_Witness ==
    /\ called = "build_lr_scheduler"
    /\ lr_scheduler_cfg = Config({Name("Nope")}, {<< <<"gamma", 1>> >>})
    /\ raised = "AttributeError"
    /\ optimizer # None

\* C7: build_lr_scheduler looks a TYPE name up in the built-in scheduler
\* registry before the custom one, and the constructor's optimizer argument is
\* the optimizer passed in, whatever PARAM holds (an optimizer entry of PARAM
\* is replaced); the other arguments are PARAM's.
C7_SchedulerGetsOptimizer ==
    (called = "build_lr_scheduler" /\ raised = "") =>
        /\ returned.type = Resolved(lr_scheduler_cfg["TYPE"], lr_scheduler, easy_lr_scheduler)
        /\ Get(returned.kwargs, "optimizer") = <<optimizer.id>>
        /\ \A kv \in Items(lr_scheduler_cfg["PARAM"]) :
             kv[1] # "optimizer" => kv \in Items(returned.kwargs)
        /\ Keys(returned.kwargs) = Keys(lr_scheduler_cfg["PARAM"]) \cup {"optimizer"}
        /\ returned = scheduler

C7_Witness ==
    /\ called = "build_lr_scheduler" /\ raised = ""
    /\ lr_scheduler_cfg["TYPE"] = Name("StepLR")
    /\ returned.type = "lr_scheduler.StepLR"
    /\ Get(lr_scheduler_cfg["PARAM"], "optimizer") = <<0>>
    /\ Get(returned.kwargs, "optimizer") = <<2>>

\* The config lacks TYPE, PARAM or both.
Malformed(cfg) == "TYPE" \notin DOMAIN cfg \/ "PARAM" \notin DOMAIN cfg

\* C8 (as claimed): a config missing TYPE, PARAM or both makes either builder
\* fail with KeyError, whatever the key that is present holds, and nothing is
\* returned.
C8_MalformedKeyError ==
    /\ (called = "build_optim" /\ Malformed(optim_cfg)) =>
          raised = "KeyError" /\ returned = None
    /\ (called = "build_lr_scheduler" /\ Malformed(lr_scheduler_cfg)) =>
          raised = "KeyError" /\ returned = None

\* C8 (amended): a config missing TYPE, PARAM or both makes either builder fail
\* and return nothing: with AttributeError when TYPE is present and is a name
\* found in neither registry (then PARAM is never read), with KeyError
\* otherwise.
C8_MalformedFails ==
    /\ (called = "build_optim" /\ Malformed(optim_cfg)) =>
          /\ returned = None
          /\ raised = IF Unresolved(optim_cfg, optim, easyoptim)
                      THEN "AttributeError" ELSE "KeyError"
    /\ (called = "build_lr_scheduler" /\ Malformed(lr_scheduler_cfg)) =>
          /\ returned = None
          /\ raised = IF Unresolved(lr_scheduler_cfg, lr_scheduler, easy_lr_scheduler)
                      THEN "AttributeError" ELSE "KeyError"

C8_Witness ==
    /\ called = "build_lr_scheduler"
    /\ DOMAIN lr_scheduler_cfg = {"TYPE"}
    /\ lr_scheduler_cfg["TYPE"] = Name("MultiStepLR")
    /\ raised = "KeyError"
    /\ DOMAIN optim_cfg = {"TYPE", "PARAM"}

\* C10: a call of either builder leaves the caller's configs as they were
\* (the optimizer entry goes to a copy of PARAM), and a second call with the
\* config as the first left it gives the result of the first.
C10_ConfigUnchanged ==
    [][/\ optim_cfg' = optim_cfg
       /\ lr_scheduler_cfg' = lr_scheduler_cfg
       /\ (called' = "build_lr_scheduler" =>
             LET again == build_lr_scheduler_call(lr_scheduler_cfg', optimizer')
             IN  again.raised = raised' /\ again.ret = returned')
       /\ (called' = "build_optim" =>
             LET again == build_optim_call(optim_cfg', model', n_optimizers')
             IN  again.raised = raised' /\ again.ret = returned')]_vars

C10_Witness ==
    /\ called = "build_lr_scheduler" /\ raised = ""
    /\ "optimizer" \notin Keys(lr_scheduler_cfg["PARAM"])
    /\ Get(returned.kwargs, "optimizer") = <<optimizer.id>>
    /\ n_optimizers = 2

====
